---- MODULE Spec2Model ----
(***************************************************************************)
(* Scale-out orchestration of src/batch_containers.py: the sizing policy   *)
(* of run_tasks, AzureBatchContainers.create_pool / add_job / add_task /   *)
(* batch_main, the completion barrier wait_for_tasks_to_complete, the bulk *)
(* teardown delete_all_tasks and delete_pool / kill_pool, against a model  *)
(* of the Batch backend, with a second run of create_pool beside the first *)
(* where two runs share a pool id.                                         *)
(*                                                                         *)
(* Text is a sequence of tokens (a token is a character or an opaque run   *)
(* of characters without quotes, digits or underscores in the places where *)
(* that matters); numbers are converted to and from decimal digits as      *)
(* str() and int() do.                                                     *)
(***************************************************************************)
EXTENDS Integers, Sequences, FiniteSets, TLC

(* ------------------------------ bounds -------------------------------- *)
MaxReplicas == 1000
MaxDedicated == 1
MaxLowPri == 9
MaxCalls == 2
MaxTasks == 11
MaxWaitTasks == 3
MaxTimeout == 3
MaxTime == 4
MaxJobs == 3
MaxMainTasks == 2
MaxHours == 2
MaxLiveTasks == 1

(* ------------------------- program constants -------------------------- *)
Tier1 == 8
Tier2 == 16
Tier3 == 32
Tier4 == 75
DefaultLowPri == 9
DefaultDedicated == 1
SleepSeconds == 1
TwoHours == 7200
SecondsPerHour == 3600

VARIABLES
    replicas, num_tasks, low_pri_nodes, dedicated_nodes, vm_sku_arg, vm_answer,
    job_name_arg, log_iterations, config_exists, delete_arg,
    config, tasks_per_node, warned,
    pc, raised,
    skip_arg, use_fileshare, mount_path, new_pool, pool_id,
    pools, calls,
    handles, ncalls,
    wait_for_tasks, workdir, job_id, i, jobs, tasks,
    now, timeout_expiration, sleep_from,
    first_all_done, last_check, saw_all_done,
    jid_list, dpos, deleted, ret, delete_call,
    pc2, pool_id2

inputVars == <<replicas, num_tasks, low_pri_nodes, dedicated_nodes, vm_sku_arg, vm_answer,
               job_name_arg, log_iterations, config_exists, delete_arg>>
fanVars == <<wait_for_tasks, workdir, job_id, i, jobs, tasks>>
waitVars == <<timeout_expiration, sleep_from, first_all_done, last_check, saw_all_done>>
tearVars == <<jid_list, dpos, deleted, ret, delete_call>>
peerVars == <<pc2, pool_id2>>
poolVars == <<skip_arg, use_fileshare, mount_path, new_pool, pool_id>>
vars == <<replicas, num_tasks, low_pri_nodes, dedicated_nodes, vm_sku_arg, vm_answer,
          job_name_arg, log_iterations, config_exists, delete_arg, config,
          tasks_per_node, warned,
          pc, raised,
          skip_arg, use_fileshare, mount_path, new_pool, pool_id, pools, calls,
          handles, ncalls, wait_for_tasks, workdir, job_id, i, jobs, tasks,
          now, timeout_expiration, sleep_from, first_all_done, last_check,
          saw_all_done, jid_list, dpos, deleted, ret, delete_call, pc2, pool_id2>>

(* ------------------------------- text --------------------------------- *)
Quote == "'"
Unset == <<"<unset>">>
NoneText == <<>>
\* the value of a key that the configuration file does not have
Absent == <<"<absent>">>

DigitChar == <<"0", "1", "2", "3", "4", "5", "6", "7", "8", "9">>

RECURSIVE Str(_)
\* str(n) / "{0}".format(n) of an integer
Str(n) ==
    IF n < 0 THEN <<"-">> \o Str(-n)
    ELSE IF n < 10 THEN <<DigitChar[n + 1]>>
    ELSE Str(n \div 10) \o <<DigitChar[(n % 10) + 1]>>

DigitValue(c) == CHOOSE d \in 0..9 : DigitChar[d + 1] = c

IsDigits(s) == Len(s) > 0 /\ \A k \in 1..Len(s) : \E d \in 0..9 : DigitChar[d + 1] = s[k]

RECURSIVE IntDigits(_)
IntDigits(s) ==
    IF Len(s) = 0 THEN 0
    ELSE 10 * IntDigits(SubSeq(s, 1, Len(s) - 1)) + DigitValue(s[Len(s)])

\* whether int(s) succeeds
IsInt(s) == IsDigits(s) \/ (Len(s) > 1 /\ s[1] = "-" /\ IsDigits(Tail(s)))

\* int(s) of a decimal string
ParseInt(s) == IF s[1] = "-" THEN 0 - IntDigits(Tail(s)) ELSE IntDigits(s)

RECURSIVE LStrip(_)
LStrip(s) == IF Len(s) > 0 /\ s[1] = Quote THEN LStrip(Tail(s)) ELSE s

RECURSIVE RStrip(_)
RStrip(s) ==
    IF Len(s) > 0 /\ s[Len(s)] = Quote THEN RStrip(SubSeq(s, 1, Len(s) - 1)) ELSE s

\* s.strip("'")
Strip(s) == RStrip(LStrip(s))

LowerToken(t) ==
    IF t \in {"None", "NONE", "none"} THEN "none"
    ELSE IF t \in {"Windows", "WINDOWS", "windows"} THEN "windows"
    ELSE t

\* s.lower()
Lower(s) == [k \in 1..Len(s) |-> LowerToken(s[k])]

(* --------------------------- sizing policy ---------------------------- *)
\* int(a / b) for b > 0: true division, then truncation towards zero
TruncDiv(a, b) == IF a >= 0 THEN a \div b ELSE 0 - ((0 - a) \div b)

Max(a, b) == IF a >= b THEN a ELSE b

\* a sizing that rounds the density up instead of truncating it
TasksPerNodeCeil(n, total_nodes) == Max(TruncDiv(n + total_nodes - 1, total_nodes), 1)

\* tasks_per_node of run_tasks
TasksPerNode(n, total_nodes) == Max(TruncDiv(n, total_nodes), 1)

\* a tier table whose boundaries are exclusive
VmTierExclusive(tpn) ==
    IF tpn < Tier1 THEN <<"Standard_E2s_v3">>
    ELSE IF tpn < Tier2 THEN <<"Standard_E8s_v3">>
    ELSE IF tpn < Tier3 THEN <<"Standard_E16s_v3">>
    ELSE IF tpn < Tier4 THEN <<"Standard_E32s_v3">>
    ELSE <<"Standard_E64s_v3">>

\* the VM name run_tasks picks when the prompt is answered "none" or ""
VmTier(tpn) ==
    IF tpn <= Tier1 THEN <<"Standard_E2s_v3">>
    ELSE IF tpn <= Tier2 THEN <<"Standard_E8s_v3">>
    ELSE IF tpn <= Tier3 THEN <<"Standard_E16s_v3">>
    ELSE IF tpn <= Tier4 THEN <<"Standard_E32s_v3">>
    ELSE <<"Standard_E64s_v3">>

\* whether that branch logs the "please check if VM Size is compatible" message
VmTierLogs(tpn) == tpn > Tier4

\* vm_sku after the "if not vm_sku" block of run_tasks
VmSku(arg, answer, tpn) ==
    IF arg # NoneText THEN arg
    ELSE IF Lower(answer) = <<"none">> \/ Lower(answer) = <<>> THEN VmTier(tpn)
    ELSE answer

VmLogs(arg, answer, tpn) ==
    /\ arg = NoneText
    /\ (Lower(answer) = <<"none">> \/ Lower(answer) = <<>>)
    /\ VmTierLogs(tpn)

ImageName == <<"sim">>

\* win_config["POOL"]["PUBLISHER"], the publisher of the Windows image, which
\* add_task tests for
WinPublisher == <<"MicrosoftWindowsServer">>

\* the configuration file before run_tasks rewrites it
ConfigFile ==
    [NUM_TASKS |-> <<"1">>, TASKS_PER_NODE |-> <<"1">>, LOW_PRI_NODES |-> <<"9">>,
     DEDICATED_NODES |-> <<"1">>, VM_SIZE |-> <<"Standard_E2s_v3">>,
     POOL_ID |-> <<"sim", "pool", "1", "0">>, JOB_NAME |-> <<"sim", "job", "1">>,
     PLATFORM |-> <<"linux">>, PUBLISHER |-> <<"microsoft-azure-batch">>]

\* run_tasks up to the call of batch_main: the configuration file must exist
\* (lines 536-537) and int(num_tasks) must succeed (line 550); for a platform
\* that is "windows" in any letter case the image settings of the Windows
\* configuration replace those of the file (lines 593-602); the constructor then
\* finds the file that run_tasks has just written
RunTasks ==
    /\ pc = "cli"
    /\ LET total_nodes == low_pri_nodes + dedicated_nodes IN
       IF ~config_exists \/ ~IsInt(num_tasks)
       THEN /\ pc' = "raised"
            /\ raised' = "ValueError"
            /\ UNCHANGED <<config, tasks_per_node, warned>>
       ELSE IF total_nodes = 0
       THEN /\ pc' = "raised"
            /\ raised' = "ZeroDivisionError"
            /\ UNCHANGED <<config, tasks_per_node, warned>>
       ELSE LET tpn == TasksPerNode(ParseInt(num_tasks), total_nodes) IN
            /\ tasks_per_node' = tpn
            /\ warned' = VmLogs(vm_sku_arg, vm_answer, tpn)
            /\ config' = [config EXCEPT
                    !.NUM_TASKS = num_tasks,
                    !.TASKS_PER_NODE = Str(tpn),
                    !.LOW_PRI_NODES = Str(low_pri_nodes),
                    !.DEDICATED_NODES = Str(dedicated_nodes),
                    !.VM_SIZE = VmSku(vm_sku_arg, vm_answer, tpn),
                    !.POOL_ID = ImageName \o <<"pool">> \o Str(total_nodes),
                    !.JOB_NAME = IF job_name_arg = NoneText
                                 THEN ImageName \o <<"job">> \o num_tasks
                                 ELSE job_name_arg,
                    !.PUBLISHER = IF Lower(config.PLATFORM) = <<"windows">>
                                  THEN WinPublisher
                                  ELSE @]
            /\ pc' = "main"
            /\ UNCHANGED raised
    /\ UNCHANGED <<inputVars, peerVars, poolVars, pools, calls, handles, ncalls,
                   fanVars, now, waitVars, tearVars>>

(* ------------------------------ __init__ ------------------------------ *)
\* AzureBatchContainers(config_file) followed by batch_main(): the constructor
\* raises ValueError when the file does not exist (lines 69-70) and otherwise
\* reads it and sets use_fileshare to False (line 99)
Construct ==
    /\ pc = "new"
    /\ IF config_exists
       THEN pc' = "main" /\ use_fileshare' = FALSE /\ UNCHANGED raised
       ELSE pc' = "raised" /\ raised' = "ValueError" /\ UNCHANGED use_fileshare
    /\ UNCHANGED <<inputVars, peerVars, config, tasks_per_node, warned, skip_arg, mount_path,
                   new_pool, pool_id, pools, calls, handles, ncalls, fanVars, now,
                   waitVars, tearVars>>

(* ---------------------------- create_pool ----------------------------- *)
\* batch_client.pool.exists(id)
PoolExists(id) == \E p \in pools : p.id = id

MountPath == IF config.PLATFORM = <<"windows">> THEN <<"S">> ELSE <<"azfileshare">>

\* self.new_pool, the PoolAddParameter
NewPool(fs) ==
    [id |-> Strip(config.POOL_ID),
     vm_size |-> Strip(config.VM_SIZE),
     max_tasks_per_node |-> ParseInt(config.TASKS_PER_NODE),
     target_dedicated_nodes |-> ParseInt(config.DEDICATED_NODES),
     target_low_priority_nodes |-> ParseInt(config.LOW_PRI_NODES),
     mount_configuration |-> IF fs THEN MountPath ELSE NoneText]

\* lines 193-197: the exception of the first configuration read that fails, a
\* KeyError for a missing key and a ValueError of int() for a non-numeric value
PoolConfigError ==
    IF config.POOL_ID = Absent \/ config.VM_SIZE = Absent THEN "KeyError"
    ELSE IF config.TASKS_PER_NODE = Absent THEN "KeyError"
    ELSE IF ~IsInt(config.TASKS_PER_NODE) THEN "ValueError"
    ELSE IF config.LOW_PRI_NODES = Absent THEN "KeyError"
    ELSE IF ~IsInt(config.LOW_PRI_NODES) THEN "ValueError"
    ELSE IF config.DEDICATED_NODES = Absent THEN "KeyError"
    ELSE IF ~IsInt(config.DEDICATED_NODES) THEN "ValueError"
    ELSE "none"

\* a create_pool that adds the pool only when the backend does not hold it,
\* whatever skip_if_exists says
MustCreateIfAbsent(skip_if_exists, id) == ~PoolExists(id)

\* a create_pool that never asks the backend whether the pool exists
MustCreateUnchecked(skip_if_exists, id) == TRUE

\* line 240: whether create_pool issues pool.add
MustCreate(skip_if_exists, id) == ~skip_if_exists \/ ~PoolExists(id)

\* create_pool up to and including the decision of line 240; the reuse branch
\* runs to the end of the method, and a configuration read that fails ends the
\* method before anything is assigned or asked of the backend
CreatePoolCheck(skip_if_exists, fs) ==
    /\ skip_arg' = skip_if_exists
    /\ IF PoolConfigError # "none"
       THEN /\ pc' = "raised"
            /\ raised' = PoolConfigError
            /\ UNCHANGED <<use_fileshare, mount_path, new_pool, pool_id, calls>>
       ELSE /\ use_fileshare' = fs
            /\ mount_path' = MountPath
            /\ new_pool' = NewPool(fs)
            /\ LET id == Strip(config.POOL_ID) IN
               /\ calls' = IF skip_if_exists
                           THEN Append(calls, <<"pool.exists", id,
                                                IF PoolExists(id) THEN "true"
                                                                  ELSE "false">>)
                           ELSE calls
               /\ IF MustCreate(skip_if_exists, id)
                  THEN pc' = "pool_add" /\ UNCHANGED pool_id
                  ELSE pc' = "pool_done" /\ pool_id' = id
            /\ UNCHANGED raised
    /\ UNCHANGED <<inputVars, peerVars, config, tasks_per_node, warned, pools,
                   fanVars, now, waitVars, tearVars>>

\* batch_main, line 420
MainCreatePool ==
    /\ pc = "main"
    /\ CreatePoolCheck(TRUE, log_iterations)
    /\ UNCHANGED <<handles, ncalls>>

\* a create_pool that tries a rejected pool.add a second time before giving up
CreatePoolAddRetry ==
    /\ pc = "pool_add"
    /\ \/ /\ ~PoolExists(new_pool.id)
          /\ calls' = Append(calls, <<"pool.add", new_pool.id, "ok">>)
          /\ pools' = pools \cup {new_pool}
          /\ pool_id' = new_pool.id
          /\ pc' = "pool_done"
          /\ UNCHANGED raised
       \/ /\ calls' = Append(calls, <<"pool.add", new_pool.id, "rejected">>)
          /\ IF \E k \in 1..Len(calls) : calls[k][1] = "pool.add"
             THEN pc' = "raised" /\ raised' = "BatchErrorException"
             ELSE UNCHANGED <<pc, raised>>
          /\ UNCHANGED <<pools, pool_id>>
    /\ UNCHANGED <<inputVars, peerVars, config, tasks_per_node, warned,
                   skip_arg, use_fileshare, mount_path, new_pool, handles, ncalls,
                   fanVars, now, waitVars, tearVars>>

\* lines 242-247: pool.add, which the backend accepts or rejects
CreatePoolAdd ==
    /\ pc = "pool_add"
    /\ \/ /\ ~PoolExists(new_pool.id)
          /\ calls' = Append(calls, <<"pool.add", new_pool.id, "ok">>)
          /\ pools' = pools \cup {new_pool}
          /\ pool_id' = new_pool.id
          /\ pc' = "pool_done"
          /\ UNCHANGED raised
       \/ /\ calls' = Append(calls, <<"pool.add", new_pool.id, "rejected">>)
          /\ pc' = "raised"
          /\ raised' = "BatchErrorException"
          /\ UNCHANGED <<pools, pool_id>>
    /\ UNCHANGED <<inputVars, peerVars, config, tasks_per_node, warned,
                   skip_arg, use_fileshare, mount_path, new_pool, handles, ncalls,
                   fanVars, now, waitVars, tearVars>>

\* create_pool in a second run of the orchestration, on the same configuration
\* and against the same backend, up to the decision of line 240
PeerCreatePoolCheck ==
    /\ pc2 = "main"
    /\ LET id == Strip(config.POOL_ID) IN
       /\ calls' = Append(calls, <<"pool.exists", id,
                                   IF PoolExists(id) THEN "true" ELSE "false">>)
       /\ IF MustCreate(TRUE, id)
          THEN pc2' = "pool_add" /\ UNCHANGED pool_id2
          ELSE pc2' = "pool_done" /\ pool_id2' = id
    /\ UNCHANGED <<inputVars, config, tasks_per_node, warned, pc, raised, poolVars,
                   pools, handles, ncalls, fanVars, now, waitVars, tearVars>>

\* a second run whose create_pool looks again before it adds, as if the check
\* and the add were one step
PeerCreatePoolAddLocked ==
    /\ pc2 = "pool_add"
    /\ LET id == Strip(config.POOL_ID) IN
       IF PoolExists(id)
       THEN /\ pc2' = "pool_done"
            /\ pool_id2' = id
            /\ UNCHANGED <<calls, pools>>
       ELSE \/ /\ calls' = Append(calls, <<"pool.add", id, "ok">>)
               /\ pools' = pools \cup {NewPool(log_iterations)}
               /\ pool_id2' = id
               /\ pc2' = "pool_done"
            \/ /\ calls' = Append(calls, <<"pool.add", id, "rejected">>)
               /\ pc2' = "raised"
               /\ UNCHANGED <<pools, pool_id2>>
    /\ UNCHANGED <<inputVars, config, tasks_per_node, warned, pc, raised, poolVars,
                   handles, ncalls, fanVars, now, waitVars, tearVars>>

\* lines 242-247 in the second run: pool.add, which the backend accepts when it
\* holds no pool of that id and rejects otherwise
PeerCreatePoolAdd ==
    /\ pc2 = "pool_add"
    /\ LET id == Strip(config.POOL_ID) IN
       \/ /\ ~PoolExists(id)
          /\ calls' = Append(calls, <<"pool.add", id, "ok">>)
          /\ pools' = pools \cup {NewPool(log_iterations)}
          /\ pool_id2' = id
          /\ pc2' = "pool_done"
       \/ /\ calls' = Append(calls, <<"pool.add", id, "rejected">>)
          /\ pc2' = "raised"
          /\ UNCHANGED <<pools, pool_id2>>
    /\ UNCHANGED <<inputVars, config, tasks_per_node, warned, pc, raised, poolVars,
                   handles, ncalls, fanVars, now, waitVars, tearVars>>

\* a direct call of create_pool by a sequential caller
CallCreatePool ==
    /\ pc = "idle"
    /\ ncalls < MaxCalls
    /\ ncalls' = ncalls + 1
    /\ \E s \in BOOLEAN, fs \in BOOLEAN : CreatePoolCheck(s, fs)
    /\ UNCHANGED handles

\* create_pool returns to that caller, which keeps self.pool_id as its handle
PoolReturn ==
    /\ pc = "pool_done"
    /\ pc' = "idle"
    /\ handles' = Append(handles, [skip |-> skip_arg, pool_id |-> pool_id])
    /\ UNCHANGED <<inputVars, peerVars, config, tasks_per_node, warned, raised, poolVars,
                   pools, calls, ncalls, fanVars, now, waitVars, tearVars>>

(* ------------------------------ add_job ------------------------------- *)
\* "{:%Y-%m-%d-%H-%M-%S}".format(datetime.datetime.now()): the clock to the second
Timestamp(t) == Str(t)

\* self.job_id of add_job
JobId(job_name) ==
    IF job_name # NoneText THEN job_name
    ELSE <<"Job-">> \o Strip(config.JOB_NAME) \o <<"-">> \o Timestamp(now)

JobExists(id) == \E j \in jobs : j.id = id

\* add_job: job.add, which the backend accepts or rejects; it rejects a job id
\* it already holds and a job on a pool it does not hold. The caller goes on at
\* `after` when add_job returns
AddJobThen(job_name, after) ==
    /\ job_id' = JobId(job_name)
    /\ \/ /\ ~JobExists(JobId(job_name))
          /\ PoolExists(pool_id)
          /\ jobs' = jobs \cup {[id |-> JobId(job_name), pool_id |-> pool_id]}
          /\ calls' = Append(calls, <<"job.add", JobId(job_name), "ok">>)
          /\ pc' = after
          /\ UNCHANGED raised
       \/ /\ calls' = Append(calls, <<"job.add", JobId(job_name), "rejected">>)
          /\ pc' = "raised"
          /\ raised' = "BatchErrorException"
          /\ UNCHANGED jobs
    /\ UNCHANGED <<inputVars, peerVars, config, tasks_per_node, warned, poolVars, pools,
                   handles, ncalls, wait_for_tasks, workdir, i, tasks,
                   now, waitVars, tearVars>>

AddJob(job_name) == AddJobThen(job_name, "fanout")

\* a direct call of add_job by a sequential caller that has called create_pool,
\* without a job name or with one
CallAddJob ==
    /\ pc = "idle"
    /\ pool_id # Unset
    /\ Cardinality({k \in 1..Len(calls) : calls[k][1] = "job.add"}) < MaxCalls
    /\ \E job_name \in {NoneText, <<"dircheck">>} : AddJobThen(job_name, "idle")

\* batch_main, line 421
MainAddJob ==
    /\ pc = "pool_done"
    /\ AddJob(NoneText)

(* ------------------------------ add_task ------------------------------ *)
\* "job_number{0}_{1}".format(i, JOB_NAME.strip("'"))
TaskName(k, campaign) == <<"job_number">> \o Str(k) \o <<"_">> \o Strip(campaign)

StartDir(start_dir) == IF start_dir = NoneText THEN <<"src">> ELSE start_dir

\* extra_opts of add_task, the container run options
ExtraOpts(start_dir) ==
    LET windows == config.PUBLISHER = <<"MicrosoftWindowsServer">>
        wd == IF windows
              THEN <<"-w", "C:\\">> \o StartDir(start_dir) \o <<"\\">>
              ELSE <<"--workdir", "/">> \o StartDir(start_dir) \o <<"/">>
        mount == IF windows
                 THEN <<"S:\\", ":", "C:\\">> \o StartDir(start_dir) \o <<"\\", "logs">>
                 ELSE <<"/azfileshare/", ":", "/">> \o StartDir(start_dir) \o <<"/", "logs">>
    IN  IF use_fileshare THEN wd \o <<" ", "--volume", " ">> \o mount ELSE wd

\* the TaskAddParameter of add_task
NewTask(task_name, start_dir) ==
    [id |-> task_name, container_run_options |-> ExtraOpts(start_dir)]

\* the exit code of a task that has not completed (None)
NoExitCode == -1

\* the exit codes the backend reports for a completed task: success and failure
ExitCodes == {0, 1}

TaskExists(job, id) == \E k \in 1..Len(tasks) : tasks[k].job = job /\ tasks[k].id = id

\* range(int(self.config["POOL"]["NUM_TASKS"])), line 434
FanoutCountShort == ParseInt(config.NUM_TASKS) - 1

FanoutCount == ParseInt(config.NUM_TASKS)

\* lines 427-434: batch_main reads NUM_TASKS for its log message and for the
\* range of the loop after create_pool and add_job have returned; a missing key
\* raises KeyError (line 430) and a non-numeric value ValueError (line 434)
MainRangeRaises ==
    /\ pc = "fanout"
    /\ ~IsInt(config.NUM_TASKS)
    /\ pc' = "raised"
    /\ raised' = IF config.NUM_TASKS = Absent THEN "KeyError" ELSE "ValueError"
    /\ UNCHANGED <<inputVars, peerVars, config, tasks_per_node, warned, poolVars, pools,
                   calls, handles, ncalls, fanVars, now, waitVars, tearVars>>

\* a fan-out loop that logs a rejected add and goes on with the next task
MainAddTaskSwallow ==
    /\ pc = "fanout"
    /\ i < FanoutCount
    /\ LET task == NewTask(TaskName(i, config.JOB_NAME), workdir) IN
       \/ /\ ~TaskExists(job_id, task.id)
          /\ tasks' = Append(tasks, [job |-> job_id, id |-> task.id, state |-> "active",
                           exit_code |-> NoExitCode,
                           container_run_options |-> task.container_run_options])
          /\ calls' = Append(calls, <<"task.add", task.id, "ok">>)
       \/ /\ calls' = Append(calls, <<"task.add", task.id, "rejected">>)
          /\ UNCHANGED tasks
    /\ i' = i + 1
    /\ UNCHANGED <<inputVars, peerVars, config, tasks_per_node, warned, poolVars, pools,
                   handles, ncalls, wait_for_tasks, workdir, job_id, jobs,
                   now, waitVars, tearVars, pc, raised>>

\* a fan-out loop that deletes the job when an add is rejected
MainAddTaskRollback ==
    /\ pc = "fanout"
    /\ i < FanoutCount
    /\ LET task == NewTask(TaskName(i, config.JOB_NAME), workdir) IN
       \/ /\ ~TaskExists(job_id, task.id)
          /\ tasks' = Append(tasks, [job |-> job_id, id |-> task.id, state |-> "active",
                           exit_code |-> NoExitCode,
                           container_run_options |-> task.container_run_options])
          /\ calls' = Append(calls, <<"task.add", task.id, "ok">>)
          /\ i' = i + 1
          /\ UNCHANGED <<pc, raised, jobs>>
       \/ /\ calls' = calls \o <<<<"task.add", task.id, "rejected">>,
                                  <<"job.delete", job_id, "ok">>>>
          /\ jobs' = {j \in jobs : j.id # job_id}
          /\ tasks' = SelectSeq(tasks, LAMBDA t : t.job # job_id)
          /\ pc' = "raised"
          /\ raised' = "BatchErrorException"
          /\ UNCHANGED i
    /\ UNCHANGED <<inputVars, peerVars, config, tasks_per_node, warned, poolVars, pools,
                   handles, ncalls, wait_for_tasks, workdir, job_id,
                   now, waitVars, tearVars>>

\* one iteration of the loop of batch_main, lines 434-449, with add_task: the
\* backend accepts the task (it starts active) or rejects the add, and the
\* exception of a rejected add leaves add_task and batch_main
MainAddTask ==
    /\ pc = "fanout"
    /\ IsInt(config.NUM_TASKS)
    /\ i < FanoutCount
    /\ LET task == NewTask(TaskName(i, config.JOB_NAME), workdir) IN
       \/ /\ ~TaskExists(job_id, task.id)
          /\ tasks' = Append(tasks, [job |-> job_id, id |-> task.id, state |-> "active",
                           exit_code |-> NoExitCode,
                           container_run_options |-> task.container_run_options])
          /\ calls' = Append(calls, <<"task.add", task.id, "ok">>)
          /\ i' = i + 1
          /\ UNCHANGED <<pc, raised>>
       \/ /\ calls' = Append(calls, <<"task.add", task.id, "rejected">>)
          /\ pc' = "raised"
          /\ raised' = "BatchErrorException"
          /\ UNCHANGED <<tasks, i>>
    /\ UNCHANGED <<inputVars, peerVars, config, tasks_per_node, warned, poolVars, pools,
                   handles, ncalls, wait_for_tasks, workdir, job_id, jobs,
                   now, waitVars, tearVars>>

\* lines 452-460 without completion-wait: batch_main logs and returns
MainSubmitted ==
    /\ pc = "fanout"
    /\ IsInt(config.NUM_TASKS)
    /\ i >= FanoutCount
    /\ ~wait_for_tasks
    /\ pc' = "done"
    /\ UNCHANGED <<inputVars, peerVars, config, tasks_per_node, warned, raised, poolVars, pools,
                   calls, handles, ncalls, fanVars, now, waitVars, tearVars>>

(* --------------------- wait_for_tasks_to_complete --------------------- *)
\* a filter that takes every task that has left the queue for finished
IsIncompleteActiveOnly(state) == state = "active"

\* task.state != batchmodels.TaskState.completed, line 396
IsIncomplete(state) == state # "completed"

\* incomplete_tasks of one task.list of the job
IncompleteTasks ==
    {k \in 1..Len(tasks) : tasks[k].job = job_id /\ IsIncomplete(tasks[k].state)}

\* whether the backend holds every task of the job as completed
AllCompleted ==
    \A k \in 1..Len(tasks) : tasks[k].job = job_id => tasks[k].state = "completed"

\* a loop without a deadline, while True
BeforeDeadlineAlways(t, expiration) == TRUE

\* a loop that still polls at the deadline itself
BeforeDeadlineInclusive(t, expiration) == t <= expiration

\* datetime.datetime.now() < timeout_expiration, line 390
BeforeDeadline(t, expiration) == t < expiration

\* line 381: the deadline is fixed when the call starts
WaitStart(timeout) ==
    /\ timeout_expiration' = now + timeout
    /\ first_all_done' = IF AllCompleted THEN now ELSE -1
    /\ pc' = "wait_check"
    /\ UNCHANGED <<inputVars, peerVars, config, tasks_per_node, warned, raised, poolVars, pools,
                   calls, handles, ncalls, fanVars, now, sleep_from, last_check,
                   saw_all_done, tearVars>>

\* a batch_main that starts the barrier without waiting for the loop to end
MainWaitEarly ==
    /\ pc = "fanout"
    /\ IsInt(config.NUM_TASKS)
    /\ wait_for_tasks
    /\ WaitStart(TwoHours)

\* line 453: with wait_for_tasks, batch_main calls the barrier with
\* datetime.timedelta(hours=2) once the loop has ended
MainWait ==
    /\ pc = "fanout"
    /\ IsInt(config.NUM_TASKS)
    /\ i >= FanoutCount
    /\ wait_for_tasks
    /\ WaitStart(TwoHours)

\* lines 454-456: the barrier has returned True, batch_main logs and returns
MainWaitReturn ==
    /\ pc = "returned"
    /\ wait_for_tasks
    /\ pc' = "done"
    /\ UNCHANGED <<inputVars, peerVars, config, tasks_per_node, warned, raised, poolVars, pools,
                   calls, handles, ncalls, fanVars, now, waitVars, tearVars>>

\* a caller that has run batch_main calls wait_for_tasks_to_complete(timeout)
CallWait ==
    /\ pc = "done"
    /\ \E timeout \in 0..MaxTimeout : WaitStart(timeout)

\* the loop condition, line 390, and the raise of lines 404-408 when it fails
WaitCheck ==
    /\ pc = "wait_check"
    /\ IF BeforeDeadline(now, timeout_expiration)
       THEN /\ pc' = "wait_list"
            /\ last_check' = now
            /\ UNCHANGED raised
       ELSE /\ pc' = "raised"
            /\ raised' = "RuntimeError"
            /\ UNCHANGED last_check
    /\ UNCHANGED <<inputVars, peerVars, config, tasks_per_node, warned, poolVars, pools,
                   calls, handles, ncalls, fanVars, now, timeout_expiration, sleep_from,
                   first_all_done, saw_all_done, tearVars>>

\* a poll that removes the tasks it finds completed from the job
WaitListPurge ==
    /\ pc = "wait_list"
    /\ calls' = Append(calls, <<"task.list", job_id, "ok">>)
              \o [k \in 1..Cardinality({m \in 1..Len(tasks) :
                                            tasks[m].job = job_id
                                            /\ tasks[m].state = "completed"})
                    |-> <<"task.delete", job_id, "ok">>]
    /\ tasks' = SelectSeq(tasks, LAMBDA t : ~(t.job = job_id /\ t.state = "completed"))
    /\ IF IncompleteTasks = {}
       THEN /\ pc' = "returned"
            /\ saw_all_done' = TRUE
            /\ UNCHANGED sleep_from
       ELSE /\ pc' = "wait_sleep"
            /\ sleep_from' = now
            /\ UNCHANGED saw_all_done
    /\ UNCHANGED <<inputVars, peerVars, config, tasks_per_node, warned, raised, poolVars, pools,
                   handles, ncalls, wait_for_tasks, workdir, job_id, i, jobs, now,
                   timeout_expiration, first_all_done, last_check, tearVars>>

\* a poll that fails the call when a completed task has a failing exit code
WaitListExitCodes ==
    /\ pc = "wait_list"
    /\ calls' = Append(calls, <<"task.list", job_id, "ok">>)
    /\ IF \E k \in 1..Len(tasks) : tasks[k].job = job_id /\ tasks[k].exit_code > 0
       THEN /\ pc' = "raised"
            /\ raised' = "RuntimeError"
            /\ UNCHANGED <<sleep_from, saw_all_done>>
       ELSE IF IncompleteTasks = {}
       THEN /\ pc' = "returned"
            /\ saw_all_done' = TRUE
            /\ UNCHANGED <<sleep_from, raised>>
       ELSE /\ pc' = "wait_sleep"
            /\ sleep_from' = now
            /\ UNCHANGED <<saw_all_done, raised>>
    /\ UNCHANGED <<inputVars, peerVars, config, tasks_per_node, warned, poolVars, pools,
                   handles, ncalls, fanVars, now, timeout_expiration,
                   first_all_done, last_check, tearVars>>

\* lines 393-402: one task.list of the job, then return True or go to sleep
WaitList ==
    /\ pc = "wait_list"
    /\ calls' = Append(calls, <<"task.list", job_id, "ok">>)
    /\ IF IncompleteTasks = {}
       THEN /\ pc' = "returned"
            /\ saw_all_done' = TRUE
            /\ UNCHANGED sleep_from
       ELSE /\ pc' = "wait_sleep"
            /\ sleep_from' = now
            /\ UNCHANGED saw_all_done
    /\ UNCHANGED <<inputVars, peerVars, config, tasks_per_node, warned, raised, poolVars, pools,
                   handles, ncalls, fanVars, now, timeout_expiration,
                   first_all_done, last_check, tearVars>>

\* time.sleep(1), line 402, returns once a second or more has passed
WaitWake ==
    /\ pc = "wait_sleep"
    /\ now >= sleep_from + SleepSeconds
    /\ pc' = "wait_check"
    /\ UNCHANGED <<inputVars, peerVars, config, tasks_per_node, warned, raised, poolVars, pools,
                   calls, handles, ncalls, fanVars, now, waitVars, tearVars>>

(* -------------------------- delete_all_tasks -------------------------- *)
\* the orders in which job.list() can return the jobs the backend holds
Orders(S) ==
    {f \in [1..Cardinality(S) -> S] : \A a, b \in 1..Cardinality(S) : a # b => f[a] # f[b]}

\* a delete_all_tasks that lists the jobs of the configured pool only
DeleteAllListOwnPool ==
    /\ pc = "idle"
    /\ \E order \in Orders({j.id : j \in {x \in jobs : x.pool_id = Strip(config.POOL_ID)}}) :
          jid_list' = [k \in 1..Len(order) |-> order[k]]
    /\ calls' = Append(calls, <<"job.list", NoneText, "ok">>)
    /\ dpos' = 1
    /\ deleted' = <<>>
    /\ ret' = <<>>
    /\ pc' = "deleting"
    /\ UNCHANGED <<inputVars, peerVars, config, tasks_per_node, warned, raised, poolVars, pools,
                   handles, ncalls, fanVars, now, waitVars, delete_call>>

\* lines 280 and 288: jobs = job.list(), jid_list = their ids
DeleteAllList ==
    /\ pc = "idle"
    /\ \E order \in Orders({j.id : j \in jobs}) :
          jid_list' = [k \in 1..Len(order) |-> order[k]]
    /\ calls' = Append(calls, <<"job.list", NoneText, "ok">>)
    /\ dpos' = 1
    /\ deleted' = <<>>
    /\ ret' = <<>>
    /\ pc' = "deleting"
    /\ UNCHANGED <<inputVars, peerVars, config, tasks_per_node, warned, raised, poolVars, pools,
                   handles, ncalls, fanVars, now, waitVars, delete_call>>

\* a try_delete without the except clause: the exception leaves delete_all_tasks
TryDeleteRaises ==
    /\ pc = "deleting"
    /\ dpos <= Len(jid_list)
    /\ LET jid == jid_list[dpos] IN
       \/ /\ JobExists(jid)
          /\ jobs' = {j \in jobs : j.id # jid}
          /\ tasks' = SelectSeq(tasks, LAMBDA t : t.job # jid)
          /\ calls' = Append(calls, <<"job.delete", jid, "ok">>)
          /\ deleted' = Append(deleted, [id |-> jid, threw |-> FALSE])
          /\ ret' = Append(ret, "None")
          /\ dpos' = dpos + 1
          /\ UNCHANGED <<pc, raised>>
       \/ /\ calls' = Append(calls, <<"job.delete", jid, "rejected">>)
          /\ deleted' = Append(deleted, [id |-> jid, threw |-> TRUE])
          /\ pc' = "raised"
          /\ raised' = "BatchErrorException"
          /\ UNCHANGED <<jobs, tasks, ret, dpos>>
    /\ UNCHANGED <<inputVars, peerVars, config, tasks_per_node, warned, poolVars, pools,
                   handles, ncalls, wait_for_tasks, workdir, job_id, i, now, waitVars,
                   jid_list, delete_call>>

\* try_delete(jid), lines 282-286, for the next id of the list comprehension of
\* line 289: job.delete succeeds, or throws and the exception is caught and
\* "already gone" printed; try_delete returns None either way
TryDelete ==
    /\ pc = "deleting"
    /\ dpos <= Len(jid_list)
    /\ LET jid == jid_list[dpos] IN
       \/ /\ JobExists(jid)
          /\ jobs' = {j \in jobs : j.id # jid}
          /\ tasks' = SelectSeq(tasks, LAMBDA t : t.job # jid)
          /\ calls' = Append(calls, <<"job.delete", jid, "ok">>)
          /\ deleted' = Append(deleted, [id |-> jid, threw |-> FALSE])
       \/ /\ calls' = Append(calls, <<"job.delete", jid, "rejected">>)
          /\ deleted' = Append(deleted, [id |-> jid, threw |-> TRUE])
          /\ UNCHANGED <<jobs, tasks>>
    /\ ret' = Append(ret, "None")
    /\ dpos' = dpos + 1
    /\ UNCHANGED <<inputVars, peerVars, config, tasks_per_node, warned, pc, raised, poolVars, pools,
                   handles, ncalls, wait_for_tasks, workdir, job_id, i, now, waitVars,
                   jid_list, delete_call>>

\* line 289: the list of the values of try_delete is returned
DeleteAllReturn ==
    /\ pc = "deleting"
    /\ dpos > Len(jid_list)
    /\ pc' = "deleted_all"
    /\ UNCHANGED <<inputVars, peerVars, config, tasks_per_node, warned, raised, poolVars, pools,
                   calls, handles, ncalls, fanVars, now, waitVars, tearVars>>

(* ----------------------------- delete_pool ---------------------------- *)
\* delete_pool as the class holds it: the definition of lines 291-295 replaces
\* the one of lines 249-252. It deletes the pool named by POOL_ID as the file
\* spells it, and an exception of pool.delete leaves the method
DeletePool ==
    LET pool_name == config.POOL_ID IN
    \/ /\ PoolExists(pool_name)
       /\ pools' = {p \in pools : p.id # pool_name}
       /\ calls' = Append(calls, <<"pool.delete", pool_name, "ok">>)
       /\ pc' = "pool_deleted"
       /\ UNCHANGED raised
    \/ /\ calls' = Append(calls, <<"pool.delete", pool_name, "rejected">>)
       /\ pc' = "raised"
       /\ raised' = "BatchErrorException"
       /\ UNCHANGED pools

\* a caller passes a pool id, batch_run.delete_pool(pool_id): the method that is
\* left takes no parameter, so the call raises TypeError before its body runs
CallDeletePool ==
    /\ pc = "idle"
    /\ delete_arg # NoneText
    /\ delete_call' = "delete_pool(id)"
    /\ pc' = "raised"
    /\ raised' = "TypeError"
    /\ UNCHANGED <<inputVars, peerVars, config, tasks_per_node, warned, poolVars, pools, calls,
                   handles, ncalls, fanVars, now, waitVars, jid_list, dpos, deleted, ret>>

\* kill_pool, lines 635-638: a new AzureBatchContainers, then delete_pool()
KillPool ==
    /\ pc = "idle"
    /\ delete_call' = "kill_pool"
    /\ IF config_exists
       THEN DeletePool
       ELSE pc' = "raised" /\ raised' = "ValueError" /\ UNCHANGED <<pools, calls>>
    /\ UNCHANGED <<inputVars, peerVars, config, tasks_per_node, warned, poolVars,
                   handles, ncalls, fanVars, now, waitVars, jid_list, dpos, deleted, ret>>

(* ------------------------ the backend and the clock ------------------- *)
\* the clock of datetime.datetime.now() advances by a second
Tick ==
    /\ now < MaxTime
    /\ now' = now + 1
    /\ UNCHANGED <<inputVars, peerVars, config, tasks_per_node, warned, pc, raised, poolVars,
                   pools, calls, handles, ncalls, fanVars, waitVars, tearVars>>

\* the clock advances by a second and does not stop while a call of the barrier
\* has its deadline ahead or sleeps; no call that starts by MaxTime with a
\* timeout of at most MaxTimeout reads a later time than the first line allows
TickOn ==
    /\ now < MaxTime + MaxTimeout + SleepSeconds
    /\ \/ now < MaxTime
       \/ pc \in {"wait_check", "wait_list", "wait_sleep"} /\ now < timeout_expiration
       \/ pc = "wait_sleep" /\ now < sleep_from + SleepSeconds
    /\ now' = now + 1
    /\ UNCHANGED <<inputVars, peerVars, config, tasks_per_node, warned, pc, raised,
                   poolVars, pools, calls, handles, ncalls, fanVars, waitVars, tearVars>>

\* an hour passes on that clock
TickHour ==
    /\ now < MaxHours * SecondsPerHour
    /\ now' = now + SecondsPerHour
    /\ UNCHANGED <<inputVars, peerVars, config, tasks_per_node, warned, pc, raised, poolVars,
                   pools, calls, handles, ncalls, fanVars, waitVars, tearVars>>

NextState(state) == IF state = "active" THEN "running" ELSE "completed"

\* the backend runs a task: active -> running -> completed, and a task that
\* completes has exited with success or with a failure
TaskProgress ==
    /\ \E k \in 1..Len(tasks), e \in ExitCodes :
          /\ tasks[k].state # "completed"
          /\ tasks' = [tasks EXCEPT
                          ![k].state = NextState(tasks[k].state),
                          ![k].exit_code = IF NextState(tasks[k].state) = "completed"
                                           THEN e ELSE @]
    /\ first_all_done' =
          IF /\ first_all_done = -1
             /\ timeout_expiration # -1
             /\ \A k \in 1..Len(tasks) :
                   tasks'[k].job = job_id => tasks'[k].state = "completed"
          THEN now ELSE first_all_done
    /\ UNCHANGED <<inputVars, peerVars, config, tasks_per_node, warned, pc, raised, poolVars,
                   pools, calls, handles, ncalls, wait_for_tasks, workdir, job_id, i,
                   jobs, now, timeout_expiration, sleep_from, last_check, saw_all_done,
                   tearVars>>

(* --------------------------- specifications --------------------------- *)
\* a pool of that id left on the backend by an earlier run
ExistingPool(id) ==
    [id |-> id, vm_size |-> <<"Standard_E2s_v3">>, max_tasks_per_node |-> 1,
     target_dedicated_nodes |-> 1, target_low_priority_nodes |-> 9,
     mount_configuration |-> NoneText]

VmAnswers == {<<>>, <<"None">>, <<"Standard_F4s_v2">>}
VmArgs == {NoneText, <<Quote, "Standard_D2_v3", Quote>>}

ClientFresh ==
    /\ raised = "none"
    /\ skip_arg = TRUE
    /\ use_fileshare = FALSE
    /\ mount_path = Unset
    /\ new_pool = [id |-> Unset]
    /\ pool_id = Unset
    /\ calls = <<>>
    /\ handles = <<>>
    /\ ncalls = 0
    /\ job_id = Unset
    /\ i = 0
    /\ timeout_expiration = -1
    /\ sleep_from = -1
    /\ last_check = -1
    /\ saw_all_done = FALSE
    /\ jid_list = <<>>
    /\ dpos = 0
    /\ deleted = <<>>
    /\ ret = <<>>
    /\ delete_call = "none"

\* no second run
PeerAbsent == pc2 = "none" /\ pool_id2 = Unset

\* a backend that holds no job yet, at time 0
BackendFresh ==
    /\ jobs = {}
    /\ tasks = <<>>
    /\ now = 0
    /\ first_all_done = -1

InitSizing ==
    /\ replicas \in 0..MaxReplicas
    /\ num_tasks = Str(replicas)
    /\ low_pri_nodes \in 0..MaxLowPri
    /\ dedicated_nodes \in 0..MaxDedicated
    /\ vm_sku_arg \in VmArgs
    /\ vm_answer \in VmAnswers
    /\ (vm_sku_arg # NoneText => vm_answer = <<>>)
    /\ job_name_arg = NoneText
    /\ log_iterations = FALSE
    /\ config_exists = TRUE
    /\ delete_arg = NoneText
    /\ config = ConfigFile
    /\ tasks_per_node = 0
    /\ warned = FALSE
    /\ pc = "cli"
    /\ pools \in {{}, {ExistingPool(ImageName \o <<"pool">>
                                       \o Str(low_pri_nodes + dedicated_nodes))}}
    /\ wait_for_tasks = FALSE
    /\ workdir = NoneText
    /\ BackendFresh
    /\ ClientFresh
    /\ PeerAbsent

PoolConfigs ==
    {[ConfigFile EXCEPT !.PLATFORM = pl, !.PUBLISHER = pb, !.POOL_ID = id] :
        pl \in {<<"linux">>, <<"windows">>},
        pb \in {<<"microsoft-azure-batch">>},
        id \in {<<"sim", "pool", "1", "0">>, <<Quote, "dev", Quote>>}}

InputsDefault ==
    /\ replicas = 1
    /\ num_tasks = <<"1">>
    /\ low_pri_nodes = 9
    /\ dedicated_nodes = 1
    /\ vm_sku_arg = NoneText
    /\ vm_answer = <<>>
    /\ job_name_arg = NoneText
    /\ log_iterations = FALSE
    /\ config_exists = TRUE
    /\ tasks_per_node = 1
    /\ warned = FALSE

InitPool ==
    /\ InputsDefault
    /\ delete_arg = NoneText
    /\ config \in PoolConfigs
    /\ pools \in {{}, {ExistingPool(Strip(config.POOL_ID))}}
    /\ pc = "idle"
    /\ wait_for_tasks = FALSE
    /\ workdir = NoneText
    /\ BackendFresh
    /\ ClientFresh
    /\ PeerAbsent

NextPool == CallCreatePool \/ CreatePoolAdd \/ PoolReturn

SpecPool == InitPool /\ [][NextPool]_vars

JobNameArgs == {NoneText, <<Quote, "camp", Quote>>, <<"7", "_", "x">>}

InitFanout ==
    /\ replicas \in 0..MaxTasks
    /\ num_tasks = Str(replicas)
    /\ low_pri_nodes = DefaultLowPri
    /\ dedicated_nodes = DefaultDedicated
    /\ vm_sku_arg = NoneText
    /\ vm_answer = <<>>
    /\ job_name_arg \in JobNameArgs
    /\ log_iterations \in BOOLEAN
    /\ config_exists = TRUE
    /\ delete_arg = NoneText
    /\ config \in {[ConfigFile EXCEPT !.PUBLISHER = pb] :
                        pb \in {<<"microsoft-azure-batch">>, <<"MicrosoftWindowsServer">>}}
    /\ tasks_per_node = 0
    /\ warned = FALSE
    /\ pc = "cli"
    /\ pools \in {{}, {ExistingPool(ImageName \o <<"pool">>
                                       \o Str(low_pri_nodes + dedicated_nodes))}}
    /\ wait_for_tasks = FALSE
    /\ workdir \in {NoneText, <<"bonsai">>}
    /\ BackendFresh
    /\ ClientFresh
    /\ PeerAbsent

NextFanout ==
    \/ RunTasks
    \/ MainCreatePool
    \/ CreatePoolAdd
    \/ MainAddJob
    \/ MainAddTask
    \/ MainSubmitted

SpecFanout == InitFanout /\ [][NextFanout]_vars

InitBarrier ==
    /\ replicas \in 0..MaxWaitTasks
    /\ num_tasks = Str(replicas)
    /\ low_pri_nodes = DefaultLowPri
    /\ dedicated_nodes = DefaultDedicated
    /\ vm_sku_arg = NoneText
    /\ vm_answer = <<>>
    /\ job_name_arg = NoneText
    /\ log_iterations = FALSE
    /\ config_exists = TRUE
    /\ delete_arg = NoneText
    /\ config = ConfigFile
    /\ tasks_per_node = 0
    /\ warned = FALSE
    /\ pc = "cli"
    /\ pools = {}
    /\ wait_for_tasks = FALSE
    /\ workdir = NoneText
    /\ BackendFresh
    /\ ClientFresh
    /\ PeerAbsent

NextBarrier ==
    \/ NextFanout
    \/ CallWait
    \/ WaitCheck
    \/ WaitList
    \/ WaitWake
    \/ Tick
    \/ TaskProgress

SpecBarrier == InitBarrier /\ [][NextBarrier]_vars

\* jobs that earlier runs left on the backend, of several campaigns and pools
OldJobs ==
    <<[id |-> <<"Job-", "sim", "job", "1", "-", "0">>, pool_id |-> <<"sim", "pool", "1", "0">>],
      [id |-> <<"Job-", "camp", "-", "1">>, pool_id |-> <<"sim", "pool", "1", "0">>],
      [id |-> <<"Job-", "other", "-", "2">>, pool_id |-> <<"dev">>],
      [id |-> <<"dircheck">>, pool_id |-> <<"dev">>],
      [id |-> <<"Job-", "sim", "job", "2", "-", "3">>, pool_id |-> <<"sim", "pool", "2">>],
      [id |-> <<"Job-", "camp", "-", "4">>, pool_id |-> <<"dev">>]>>

InitTeardown ==
    /\ InputsDefault
    /\ delete_arg = NoneText
    /\ config = ConfigFile
    /\ pools = {ExistingPool(<<"sim", "pool", "1", "0">>), ExistingPool(<<"dev">>),
                ExistingPool(<<"sim", "pool", "2">>)}
    /\ pc = "idle"
    /\ wait_for_tasks = FALSE
    /\ workdir = NoneText
    /\ jobs \in SUBSET {OldJobs[k] : k \in 1..MaxJobs}
    /\ tasks = <<>>
    /\ now = 0
    /\ first_all_done = -1
    /\ ClientFresh
    /\ PeerAbsent

NextTeardown == DeleteAllList \/ TryDelete \/ DeleteAllReturn

SpecTeardown == InitTeardown /\ [][NextTeardown]_vars

\* configuration files as an operator may have written them: the replica count
\* or a node count missing or not a number, the platform in either spelling
MainConfigs ==
    {[ConfigFile EXCEPT !.NUM_TASKS = n, !.LOW_PRI_NODES = l, !.PLATFORM = pl,
                        !.PUBLISHER = pb] :
        n \in {Str(MaxMainTasks), <<"abc">>, Absent},
        l \in {<<"9">>, <<"nine">>},
        pl \in {<<"linux">>, <<"windows">>, <<"Windows">>},
        pb \in {<<"microsoft-azure-batch">>, <<"MicrosoftWindowsServer">>}}

\* a run started from the command line (run_tasks) or by a script that
\* constructs AzureBatchContainers and calls batch_main itself
InitMain ==
    /\ pc \in {"cli", "new"}
    /\ config_exists \in BOOLEAN
    /\ delete_arg = NoneText
    /\ config \in MainConfigs
    /\ (pc = "cli" => config.NUM_TASKS = Str(MaxMainTasks) /\ config.LOW_PRI_NODES = <<"9">>)
    /\ num_tasks \in IF pc = "cli"
                     THEN {Str(n) : n \in 0..MaxMainTasks} \cup {<<"abc">>}
                     ELSE {config.NUM_TASKS}
    /\ replicas = IF IsInt(num_tasks) THEN ParseInt(num_tasks) ELSE 0
    /\ low_pri_nodes = DefaultLowPri
    /\ dedicated_nodes = DefaultDedicated
    /\ vm_sku_arg = NoneText
    /\ vm_answer = <<>>
    /\ job_name_arg = NoneText
    /\ log_iterations \in BOOLEAN
    /\ tasks_per_node = 0
    /\ warned = FALSE
    /\ pools \in {{}, {ExistingPool(<<"sim", "pool", "1", "0">>)}}
    /\ wait_for_tasks \in (IF pc = "cli" THEN {FALSE} ELSE BOOLEAN)
    /\ workdir = NoneText
    /\ BackendFresh
    /\ ClientFresh
    /\ PeerAbsent

NextMain ==
    \/ RunTasks
    \/ Construct
    \/ MainCreatePool
    \/ CreatePoolAdd
    \/ MainAddJob
    \/ MainRangeRaises
    \/ MainAddTask
    \/ MainSubmitted
    \/ MainWait
    \/ WaitCheck
    \/ WaitList
    \/ WaitWake
    \/ MainWaitReturn
    \/ TickHour
    \/ TaskProgress

SpecMain == InitMain /\ [][NextMain]_vars

\* an operator who creates pools and deletes the configured pool, by
\* delete_pool with the pool id or by kill_pool
InitPoolDelete ==
    /\ InputsDefault
    /\ config \in PoolConfigs
    /\ delete_arg \in {Strip(config.POOL_ID), <<"other">>}
    /\ pools \in {{}, {ExistingPool(Strip(config.POOL_ID))}}
    /\ pc = "idle"
    /\ wait_for_tasks = FALSE
    /\ workdir = NoneText
    /\ BackendFresh
    /\ ClientFresh
    /\ PeerAbsent

NextPoolDelete ==
    CallCreatePool \/ CreatePoolAdd \/ PoolReturn \/ CallDeletePool \/ KillPool

SpecPoolDelete == InitPoolDelete /\ [][NextPoolDelete]_vars

InitWaitLive ==
    /\ replicas \in 0..MaxLiveTasks
    /\ num_tasks = Str(replicas)
    /\ low_pri_nodes = DefaultLowPri
    /\ dedicated_nodes = DefaultDedicated
    /\ vm_sku_arg = NoneText
    /\ vm_answer = <<>>
    /\ job_name_arg = NoneText
    /\ log_iterations = FALSE
    /\ config_exists = TRUE
    /\ delete_arg = NoneText
    /\ config = ConfigFile
    /\ tasks_per_node = 0
    /\ warned = FALSE
    /\ pc = "cli"
    /\ pools = {}
    /\ wait_for_tasks = FALSE
    /\ workdir = NoneText
    /\ BackendFresh
    /\ ClientFresh
    /\ PeerAbsent

NextWaitLive ==
    \/ NextFanout
    \/ CallWait
    \/ WaitCheck
    \/ WaitList
    \/ WaitWake
    \/ TickOn
    \/ TaskProgress

\* the process that runs the barrier is scheduled (the call is synchronous and
\* single-threaded, so each of its steps is taken once it can be) and the clock
\* keeps advancing; the backend owes the tasks no progress
SpecWaitLive ==
    /\ InitWaitLive
    /\ [][NextWaitLive]_vars
    /\ WF_vars(WaitCheck)
    /\ WF_vars(WaitList)
    /\ WF_vars(WaitWake)
    /\ WF_vars(TickOn)

\* two runs of batch_main on one configuration, started before either has
\* called create_pool
InitRace ==
    /\ InputsDefault
    /\ delete_arg = NoneText
    /\ config \in PoolConfigs
    /\ pools \in {{}, {ExistingPool(Strip(config.POOL_ID))}}
    /\ pc = "main"
    /\ wait_for_tasks = FALSE
    /\ workdir = NoneText
    /\ BackendFresh
    /\ ClientFresh
    /\ pc2 = "main"
    /\ pool_id2 = Unset

NextRace ==
    \/ MainCreatePool
    \/ CreatePoolAdd
    \/ PeerCreatePoolCheck
    \/ PeerCreatePoolAdd
    \/ MainAddJob
    \/ MainAddTask
    \/ MainSubmitted

SpecRace == InitRace /\ [][NextRace]_vars

\* a script that calls create_pool and add_job of one AzureBatchContainers
NextJobs == CallCreatePool \/ CreatePoolAdd \/ PoolReturn \/ CallAddJob \/ Tick

SpecJobs == InitPool /\ [][NextJobs]_vars

NextSizing == RunTasks \/ MainCreatePool \/ CreatePoolAdd

SpecSizing == InitSizing /\ [][NextSizing]_vars

(* ------------------------------- claims ------------------------------- *)
AddCalls == Cardinality({k \in 1..Len(calls) : calls[k][1] = "pool.add"})

AllCallsSkip ==
    /\ \A k \in 1..Len(handles) : handles[k].skip
    /\ (pc \in {"pool_add", "pool_done", "raised"} => skip_arg)

NoPoolAtStart ==
    Len(calls) > 0 /\ calls[1] = <<"pool.exists", Strip(config.POOL_ID), "false">>

FirstAddRecorded == \A k \in 1..Len(calls) :
    (calls[k][1] = "pool.add" /\ \A j \in 1..(k - 1) : calls[j][1] # "pool.add")
        => calls[k][3] = "ok"

\* C1: create_pool calls made in sequence with skip_if_exists=True for the same
\* pool id, on a backend that has no such pool at the start and records the pool
\* when it is created, issue one pool.add in total (never a second one), and
\* every call ends with self.pool_id equal to the configured pool id.
C1_EnsurePoolIdempotent ==
    (AllCallsSkip /\ NoPoolAtStart /\ FirstAddRecorded) =>
        /\ AddCalls <= 1
        /\ \A k \in 1..Len(handles) : handles[k].pool_id = Strip(config.POOL_ID)
        /\ (Len(handles) >= 2 => AddCalls = 1)

C1_Witness ==
    /\ Len(handles) = 2
    /\ AllCallsSkip /\ NoPoolAtStart /\ FirstAddRecorded
    /\ AddCalls = 1
    /\ handles[1].pool_id = handles[2].pool_id

Sized == pc \in {"main", "pool_add", "pool_done"} \/ (pc = "raised" /\ raised # "ZeroDivisionError")

\* C7: for totalReplicas >= 1 and dedicated + low priority >= 1, tasks_per_node is
\* max(floor(totalReplicas / totalNodes), 1), it is >= 1, and it is the
\* max_tasks_per_node of the pool definition and of the pool the backend creates.
C7_TasksPerNodeFloor ==
    LET n == replicas
        t == dedicated_nodes + low_pri_nodes
        q == tasks_per_node
    IN  (Sized /\ n >= 1 /\ t >= 1) =>
            /\ q >= 1
            /\ (n >= t => q * t <= n /\ n < (q + 1) * t)
            /\ (n < t => q = 1)
            /\ (pc # "main" => new_pool.max_tasks_per_node = q)
            /\ (Len(calls) > 0 /\ calls[Len(calls)][1] = "pool.add"
                    /\ calls[Len(calls)][3] = "ok" =>
                  \E p \in pools : p.id = pool_id /\ p.max_tasks_per_node = q)

C7_Witness ==
    /\ pc = "pool_done"
    /\ replicas = 25 /\ dedicated_nodes + low_pri_nodes = 10
    /\ tasks_per_node = 2
    /\ calls[Len(calls)] = <<"pool.add", pool_id, "ok">>
    /\ \E p \in pools : p.id = pool_id /\ p.max_tasks_per_node = 2

NoVmSupplied == vm_sku_arg = NoneText /\ vm_answer \in {<<>>, <<"None">>}

VmRank(vm) ==
    CASE vm = <<"Standard_E2s_v3">> -> 1
      [] vm = <<"Standard_E8s_v3">> -> 2
      [] vm = <<"Standard_E16s_v3">> -> 3
      [] vm = <<"Standard_E32s_v3">> -> 4
      [] vm = <<"Standard_E64s_v3">> -> 5
      [] OTHER -> 0

\* C8: with no VM class supplied, the class is the step function of tasks_per_node
\* with boundaries 8, 16, 32, 75 (rank = 1 + the number of boundaries below it,
\* hence non-decreasing), a class is chosen for every tasks_per_node >= 1 without
\* raising, the message is logged exactly above 75, and recommend(100, 1, 9) and
\* recommend(1000, 1, 9) give 10 / the <=16 tier and 100 / the largest tier.
C8_VmClassStepFunction ==
    (Sized /\ NoVmSupplied) =>
        /\ tasks_per_node >= 1
        /\ VmRank(config.VM_SIZE) =
              1 + Cardinality({b \in {8, 16, 32, 75} : tasks_per_node > b})
        /\ (warned <=> tasks_per_node > 75)
        /\ (replicas = 100 /\ dedicated_nodes = 1 /\ low_pri_nodes = 9 =>
                tasks_per_node = 10 /\ config.VM_SIZE = <<"Standard_E8s_v3">>)
        /\ (replicas = 1000 /\ dedicated_nodes = 1 /\ low_pri_nodes = 9 =>
                tasks_per_node = 100 /\ config.VM_SIZE = <<"Standard_E64s_v3">> /\ warned)

C8_Witness ==
    /\ Sized /\ NoVmSupplied
    /\ replicas = 1000 /\ dedicated_nodes = 1 /\ low_pri_nodes = 9
    /\ config.VM_SIZE = <<"Standard_E64s_v3">> /\ warned

TaskAdds == SelectSeq(calls, LAMBDA c : c[1] = "task.add")

JobTasks == SelectSeq(tasks, LAMBDA t : t.job = job_id)

\* job_number<k>_<campaign>, the campaign being the configured job name
ExpectedTaskId(k) == <<"job_number">> \o Str(k) \o <<"_">> \o Strip(config.JOB_NAME)

LastCall == calls[Len(calls)]

AddRejected == Len(calls) > 0 /\ LastCall[1] = "task.add" /\ LastCall[3] = "rejected"

\* C2: while no submission fails, the fan-out of N replicas has issued task.add
\* for job_number0_<campaign>, job_number1_<campaign>, ... in that order, the ids
\* pairwise distinct, each add putting one task into the job, and when the loop
\* ends exactly N adds were issued, one per requested replica.
C2_FanoutSubmitsN ==
    (pc \in {"fanout", "done"}) =>
        /\ Len(TaskAdds) = i /\ i <= replicas
        /\ \A k \in 1..Len(TaskAdds) :
              TaskAdds[k][2] = ExpectedTaskId(k - 1) /\ TaskAdds[k][3] = "ok"
        /\ \A k, m \in 1..Len(TaskAdds) : k # m => TaskAdds[k][2] # TaskAdds[m][2]
        /\ Len(JobTasks) = Len(TaskAdds)
        /\ \A k \in 1..Len(JobTasks) : JobTasks[k].id = TaskAdds[k][2]
        /\ (pc = "done" => Len(TaskAdds) = replicas)

C2_Witness ==
    /\ pc = "done"
    /\ replicas = 11
    /\ Len(TaskAdds) = 11
    /\ TaskAdds[11][2] = <<"job_number", "1", "0", "_", "camp">>

\* C9 as stated: when the backend rejects the add of task i, the adds of the
\* tasks after it are still attempted, so a finished fan-out has issued N adds.
C9_RemainingAddsAttempted ==
    (pc \in {"raised", "done"} /\ \E k \in 1..Len(TaskAdds) : TaskAdds[k][3] = "rejected")
        => Len(TaskAdds) = replicas

\* C9 amended: a rejected add ends the fan-out. It is the last backend call of
\* the run, its exception leaves batch_main unmodified, the tasks after it are
\* never attempted and the rejected task is not submitted a second time.
C9_RejectedAddEndsFanout ==
    \A k \in 1..Len(calls) :
        (calls[k][1] = "task.add" /\ calls[k][3] = "rejected") =>
            /\ k = Len(calls)
            /\ pc = "raised" /\ raised = "BatchErrorException"
            /\ calls[k][2] = ExpectedTaskId(i)
            /\ Len(TaskAdds) = i + 1
            /\ \A m \in 1..Len(calls) : m # k => calls[m][2] # calls[k][2]

C9_Witness ==
    /\ pc = "raised" /\ AddRejected
    /\ i = 1 /\ replicas = 3
    /\ Len(TaskAdds) = 2

DestructiveOps == {"task.delete", "task.terminate", "job.delete", "job.terminate",
                   "pool.delete"}

\* C10: when the add of task i is rejected, the tasks 0..i-1 are still in the job,
\* the job and the pool are still on the backend and the run has issued no delete
\* or terminate call: the run ends in a partial fan-out.
C10_NoRollback ==
    (pc = "raised" /\ \E k \in 1..Len(TaskAdds) : TaskAdds[k][3] = "rejected") =>
        /\ Len(JobTasks) = i
        /\ \A k \in 1..i : JobTasks[k].id = ExpectedTaskId(k - 1)
        /\ JobExists(job_id)
        /\ PoolExists(pool_id)
        /\ \A k \in 1..Len(calls) : calls[k][1] \notin DestructiveOps

C10_Witness ==
    /\ pc = "raised" /\ AddRejected
    /\ replicas = 5
    /\ Len(JobTasks) = 3
    /\ JobExists(job_id)

\* The clock counts whole seconds: a reading t < timeout_expiration is an instant
\* strictly before the deadline, and the tasks are all terminal strictly before
\* the deadline when first_all_done, the reading at which the last of them
\* completed (or the call started with all of them completed), is such a reading.
AllDoneBeforeDeadline == first_all_done # -1 /\ first_all_done < timeout_expiration

TimedOut == pc = "raised" /\ raised = "RuntimeError"

\* a call on a job that holds a task, which has polled the job at least once
PolledJobWithTasks == Len(JobTasks) >= 1 /\ last_check # -1

PollOutcome ==
    /\ (pc = "returned" =>
            /\ saw_all_done
            /\ AllCompleted
            /\ first_all_done # -1 /\ first_all_done <= now
            /\ last_check # -1 /\ last_check < timeout_expiration
            /\ LastCall[1] = "task.list")
    /\ (pc \in {"wait_check", "wait_list", "wait_sleep"} \/ TimedOut => ~saw_all_done)
    /\ (pc = "wait_sleep" => first_all_done = -1 \/ first_all_done >= sleep_from)

\* a poll ends the call with success exactly when the backend holds every task
\* of the job as Completed at the time of the poll
PollStep == (pc = "wait_list" /\ pc' # pc) => (pc' = "returned" <=> AllCompleted)

TimeoutOutcome ==
    /\ (TimedOut =>
            /\ now >= timeout_expiration
            /\ ~saw_all_done
            /\ (last_check # -1 =>
                    /\ last_check < timeout_expiration
                    /\ (first_all_done = -1 \/ first_all_done >= last_check)))
    /\ (pc \in {"wait_list", "wait_sleep", "returned"} =>
            last_check # -1 /\ last_check < timeout_expiration)
    /\ (pc = "raised" /\ timeout_expiration # -1 => raised = "RuntimeError")

\* a loop check ends the call with the timeout error exactly when the clock reads
\* the deadline or later
CheckStep ==
    (pc = "wait_check" /\ pc' # pc) =>
        ((pc' = "raised" /\ raised' = "RuntimeError") <=> now >= timeout_expiration)

C5_DeleteAllNeverAborts ==
    (pc \in {"deleting", "deleted_all", "raised"}) =>
        /\ pc # "raised" /\ raised = "none"
        /\ Len(deleted) = dpos - 1
        /\ \A k \in 1..Len(deleted) : deleted[k].id = jid_list[k]
        /\ \A k \in 1..Len(deleted) : calls[k + 1] = <<"job.delete", jid_list[k],
                                          IF deleted[k].threw THEN "rejected" ELSE "ok">>
        /\ Len(calls) = Len(deleted) + 1
        /\ (pc = "deleted_all" => Len(deleted) = Len(jid_list))

C5_Witness ==
    /\ pc = "deleted_all"
    /\ Len(jid_list) = 3
    /\ ~deleted[1].threw /\ deleted[2].threw /\ ~deleted[3].threw
    /\ raised = "none"

\* C6: the list delete_all_tasks returns has one outcome per job id, and the
\* outcome of an id whose deletion threw differs from the outcome of an id whose
\* deletion succeeded.
C6_OutcomesTellFailures ==
    (pc = "deleted_all") =>
        /\ Len(ret) = Len(jid_list)
        /\ \A k, m \in 1..Len(ret) :
              (deleted[k].threw /\ ~deleted[m].threw) => ret[k] # ret[m]

OpCount(op) == Cardinality({k \in 1..Len(calls) : calls[k][1] = op})

ProvisioningOps == {"pool.add", "job.add"}

\* C11: when the backend rejects the pool.add or the job.add of batch_main, the
\* rejected call is the last backend call of the run, batch_main has ended with
\* the BatchErrorException of the backend, that create was issued once, and no
\* later step has run: no job.add after a rejected pool.add, no task.add after a
\* rejected job.add, no task.list.
C11_ProvisioningRejectionFatal ==
    \A k \in 1..Len(calls) :
        (calls[k][1] \in ProvisioningOps /\ calls[k][3] = "rejected") =>
            /\ k = Len(calls)
            /\ pc = "raised" /\ raised = "BatchErrorException"
            /\ OpCount(calls[k][1]) = 1
            /\ (calls[k][1] = "pool.add" => OpCount("job.add") = 0)
            /\ OpCount("task.add") = 0
            /\ OpCount("task.list") = 0
            /\ i = 0 /\ tasks = <<>>

C11_Witness ==
    /\ pc = "raised" /\ raised = "BatchErrorException"
    /\ Len(calls) = 2
    /\ calls[1][1] = "pool.exists" /\ calls[1][3] = "false"
    /\ calls[2][1] = "pool.add" /\ calls[2][3] = "rejected"
    /\ replicas = 3

C11_WitnessJob ==
    /\ pc = "raised" /\ raised = "BatchErrorException"
    /\ LastCall[1] = "job.add" /\ LastCall[3] = "rejected"
    /\ OpCount("pool.add") = 1
    /\ replicas = 3

ConfigErrors == {"ValueError", "KeyError"}

\* C12: a run that ends with a configuration error (the file absent, the replica
\* count or a node count missing or not a number) has issued no pool, job or task
\* call on the backend before the error was raised.
C12_ConfigErrorBeforeRemoteCalls ==
    (pc = "raised" /\ raised \in ConfigErrors) => calls = <<>>

\* the step of batch_main a backend call belongs to
CallRank(op) ==
    CASE op = "pool.exists" -> 1
      [] op = "pool.add" -> 2
      [] op = "job.add" -> 3
      [] op = "task.add" -> 4
      [] op = "task.list" -> 5
      [] OTHER -> 0

PoolSecured(k, id) ==
    \E m \in 1..(k - 1) :
        \/ calls[m] = <<"pool.exists", id, "true">>
        \/ calls[m] = <<"pool.add", id, "ok">>

\* C13: the backend calls of batch_main occur in the order pool.exists / pool.add,
\* job.add, the task.adds, the task.lists of the barrier. The job.add follows a
\* pool.exists that answered true or a pool.add that was accepted, for the pool id
\* the job is bound to; every task.add follows the accepted job.add; every
\* task.list follows the N accepted task.adds, and there is none unless
\* wait_for_tasks is set.
C13_BackendCallOrder ==
    /\ \A k, m \in 1..Len(calls) :
          k < m => /\ CallRank(calls[k][1]) # 0
                   /\ CallRank(calls[k][1]) <= CallRank(calls[m][1])
    /\ OpCount("pool.exists") <= 1 /\ OpCount("pool.add") <= 1 /\ OpCount("job.add") <= 1
    /\ \A k \in 1..Len(calls) :
          /\ calls[k][1] = "job.add" =>
                /\ PoolSecured(k, pool_id)
                /\ pool_id = Strip(config.POOL_ID)
                /\ calls[k][2] = job_id
                /\ (calls[k][3] = "ok" => [id |-> job_id, pool_id |-> pool_id] \in jobs)
          /\ calls[k][1] = "task.add" =>
                \E m \in 1..(k - 1) : calls[m] = <<"job.add", job_id, "ok">>
          /\ calls[k][1] = "task.list" =>
                /\ wait_for_tasks
                /\ IsInt(config.NUM_TASKS)
                /\ Cardinality({m \in 1..(k - 1) : calls[m][1] = "task.add"
                                                    /\ calls[m][3] = "ok"})
                      = ParseInt(config.NUM_TASKS)
                /\ calls[k][2] = job_id

C13_Witness ==
    /\ pc = "done" /\ wait_for_tasks
    /\ Len(calls) = 7
    /\ calls[1][1] = "pool.exists" /\ calls[2][1] = "pool.add" /\ calls[3][1] = "job.add"
    /\ calls[4][1] = "task.add" /\ calls[5][1] = "task.add"
    /\ calls[6][1] = "task.list" /\ calls[7][1] = "task.list"

\* the ids of the job.add calls made without a job name, in call order
DefaultJobAdds == SelectSeq(calls, LAMBDA c : c[1] = "job.add" /\ c[2][1] = "Job-")

\* C14: any two add_job calls made without a job name for the same campaign
\* produce different job ids.
C14_DefaultJobIdsDistinct ==
    \A k, m \in 1..Len(DefaultJobAdds) : k # m => DefaultJobAdds[k][2] # DefaultJobAdds[m][2]

Has(opts, token) == \E k \in 1..Len(opts) : opts[k] = token

\* C15: for every task submitted with the shared mount requested, the OS family
\* create_pool chose the relative mount path by (S for Windows, azfileshare
\* otherwise) is the OS family add_task chose the bind-mount source by (S:\ for
\* Windows, /azfileshare/ otherwise).
C15_MountConventionAgrees ==
    \A k \in 1..Len(tasks) :
        Has(tasks[k].container_run_options, "--volume") =>
            /\ (mount_path = <<"S">> <=> Has(tasks[k].container_run_options, "S:\\"))
            /\ (mount_path = <<"azfileshare">>
                    <=> Has(tasks[k].container_run_options, "/azfileshare/"))

\* C16: every task submitted with a --volume bind mount is in a job whose pool was
\* created with the storage-mount descriptor, also when create_pool reused a pool
\* that was already there.
C16_VolumeOnlyOnMountedPool ==
    \A k \in 1..Len(tasks) :
        Has(tasks[k].container_run_options, "--volume") =>
            \E p \in pools : p.id = pool_id /\ p.mount_configuration # NoneText

WaitPcs == {"wait_check", "wait_list", "wait_sleep"}

\* a step of wait_for_tasks_to_complete: its start, or a step of its loop
BarrierStep ==
    \/ pc = "done" /\ pc' = "wait_check"
    \/ pc \in WaitPcs /\ pc' # pc

\* a step of the barrier leaves the tasks, their states, the jobs and the pools
\* as they are and adds at most one task.list of the job to the backend calls
BarrierFrame ==
    BarrierStep =>
        /\ UNCHANGED <<tasks, jobs, pools>>
        /\ \/ calls' = calls
           \/ calls' = Append(calls, <<"task.list", job_id, "ok">>)

NoDestructiveCall == \A k \in 1..Len(calls) : calls[k][1] \notin DestructiveOps

\* C17: wait_for_tasks_to_complete only observes. Each of its steps, in a call
\* that ends in success or in the timeout error, issues nothing but a task.list
\* of the job and leaves every task's state, the set of tasks, the job and the
\* pool unchanged; no delete or terminate call is ever issued.
C17_BarrierOnlyObserves == []NoDestructiveCall /\ [][BarrierFrame]_vars

C17_Witness ==
    /\ TimedOut
    /\ OpCount("task.list") >= 2
    /\ Len(JobTasks) = 3
    /\ JobExists(job_id) /\ PoolExists(pool_id)
    /\ \E k \in 1..3 : JobTasks[k].state = "completed"

\* the task states one task.list of the job shows, without the exit codes
ObservedStates == [k \in 1..Len(JobTasks) |-> JobTasks[k].state]

\* where the barrier goes from where it is, given the task states it observes
\* and the reading of the clock
BarrierOutcome(states, t) ==
    CASE pc = "wait_check" -> IF t < timeout_expiration THEN "wait_list" ELSE "raised"
      [] pc = "wait_list" -> IF \A k \in 1..Len(states) : states[k] = "completed"
                             THEN "returned" ELSE "wait_sleep"
      [] OTHER -> "wait_check"

HasFailedTask == \E k \in 1..Len(JobTasks) : JobTasks[k].exit_code > 0

\* every loop step of the barrier goes where the observed task states and the
\* clock send it, whatever the exit codes of the tasks
OutcomeFromStatesAndClock ==
    (pc \in WaitPcs /\ pc' # pc) => pc' = BarrierOutcome(ObservedStates, now)

\* a call that ends with the timeout error ends so on the clock alone
ErrorOnlyFromClock ==
    (pc = "raised" /\ timeout_expiration # -1) =>
        raised = "RuntimeError" /\ now >= timeout_expiration

PoolDeletes == SelectSeq(calls, LAMBDA c : c[1] = "pool.delete")

\* C19: a delete_pool call that is given a pool id issues exactly one pool.delete
\* call, for that id, and when the backend rejects it the exception of the
\* backend reaches the caller.
C19_OneDeleteForGivenId ==
    (delete_call = "delete_pool(id)") =>
        /\ Len(PoolDeletes) = 1
        /\ PoolDeletes[1][2] = delete_arg
        /\ (PoolDeletes[1][3] = "rejected" =>
                pc = "raised" /\ raised = "BatchErrorException")

AbsentAnswers == Cardinality({k \in 1..Len(calls) : calls[k][1] = "pool.exists"
                                                     /\ calls[k][3] = "false"})

AcceptedAdds == Cardinality({k \in 1..Len(calls) : calls[k] = <<"pool.add", Strip(config.POOL_ID), "ok">>})

PastCreate(p) == p \notin {"main", "pool_add"}

\* C20: create_pool checks and then acts, with no lock between the two. With two
\* runs calling it with skip_if_exists=True for one pool id, whenever both
\* existence checks answered false (which an interleaving reaches when the pool
\* does not exist yet), each run that has gone past its create has issued its own
\* pool.add for that id: two pool.add calls once both have, of which the backend
\* accepts at most one, the other run ending with the exception of the backend.
C20_CheckThenActRace ==
    (AbsentAnswers = 2) =>
        /\ AddCalls = (IF PastCreate(pc) THEN 1 ELSE 0) + (IF PastCreate(pc2) THEN 1 ELSE 0)
        /\ \A k \in 1..Len(calls) :
              calls[k][1] = "pool.add" => calls[k][2] = Strip(config.POOL_ID)
        /\ AcceptedAdds <= 1
        /\ (PastCreate(pc) /\ PastCreate(pc2) => pc = "raised" \/ pc2 = "raised")

C20_Witness ==
    /\ AbsentAnswers = 2
    /\ calls[1][1] = "pool.exists" /\ calls[2][1] = "pool.exists"
    /\ AddCalls = 2
    /\ AcceptedAdds = 1
    /\ pc = "pool_done" /\ pc2 = "raised"

WaitEnded == pc = "returned" \/ TimedOut

\* a call ends with the timeout error only at or after its deadline, and with
\* success only when every task of the job is Completed
EndsOnDeadlineOrCompletion ==
    /\ (TimedOut => now >= timeout_expiration)
    /\ (pc = "returned" => AllCompleted)

ConfiguredPoolId == Strip(config.POOL_ID)

\* C22 as stated, in its last part: in every case, also when the create is
\* issued for a pool id the backend already holds, a create_pool call that has
\* ended has left self.pool_id equal to the configured pool id.
C22_PoolIdSetInEveryCase ==
    (pc \in {"pool_done", "raised"}) => pool_id = ConfiguredPoolId

\* a create_pool call starts: without skip_if_exists it asks the backend nothing
\* and goes on to pool.add, whether or not the pool exists; with skip_if_exists
\* it issues one pool.exists and goes on to pool.add exactly when the answer is
\* false, and on an existing pool it issues nothing else, changes no pool and
\* sets self.pool_id
CreateDecision ==
    (pc = "idle" /\ pc' # "idle") =>
        /\ (~skip_arg' => calls' = calls /\ pc' = "pool_add" /\ pools' = pools)
        /\ (skip_arg' /\ PoolExists(ConfiguredPoolId) =>
                /\ calls' = Append(calls, <<"pool.exists", ConfiguredPoolId, "true">>)
                /\ pc' = "pool_done"
                /\ pools' = pools
                /\ pool_id' = ConfiguredPoolId)
        /\ (skip_arg' /\ ~PoolExists(ConfiguredPoolId) =>
                /\ calls' = Append(calls, <<"pool.exists", ConfiguredPoolId, "false">>)
                /\ pc' = "pool_add"
                /\ pools' = pools)

\* a create_pool call that goes on to pool.add issues exactly one, for the
\* configured id; accepted, self.pool_id is set, and rejected, the exception
\* leaves create_pool before line 247 and self.pool_id stays as it was
CreateIssued ==
    (pc = "pool_add" /\ pc' # pc) =>
        /\ Len(calls') = Len(calls) + 1
        /\ calls'[Len(calls')][1] = "pool.add"
        /\ calls'[Len(calls')][2] = ConfiguredPoolId
        /\ (calls'[Len(calls')][3] = "ok" =>
                pc' = "pool_done" /\ pool_id' = ConfiguredPoolId)
        /\ (calls'[Len(calls')][3] = "rejected" =>
                pc' = "raised" /\ pool_id' = pool_id /\ pools' = pools)

\* every create_pool call that returned left self.pool_id at the configured id
\* (without its quotes), and no call issues a delete
ReturnedWithPoolId ==
    /\ (pc = "pool_done" => pool_id = ConfiguredPoolId)
    /\ \A k \in 1..Len(handles) : handles[k].pool_id = ConfiguredPoolId
    /\ NoDestructiveCall

\* C22 amended: create_pool issues pool.add exactly when skip_if_exists is false
\* or pool.exists answers false; with skip_if_exists=False no pool.exists is
\* issued, also for an id the backend holds; with skip_if_exists=True on an
\* existing pool no pool.add and no other mutating call is issued; and
\* self.pool_id is the configured id whenever create_pool returns, but is left
\* unassigned when the backend rejects the pool.add and the exception propagates.
C22_CreateExactlyWhenNeeded ==
    []ReturnedWithPoolId /\ [][CreateDecision /\ CreateIssued]_vars

C22_Witness ==
    /\ Len(handles) = 2
    /\ ~handles[1].skip /\ handles[2].skip
    /\ Len(calls) = 2
    /\ calls[1] = <<"pool.add", ConfiguredPoolId, "ok">>
    /\ calls[2] = <<"pool.exists", ConfiguredPoolId, "true">>
    /\ pool_id = ConfiguredPoolId

\* the job.delete calls of the log, in order
JobDeletes == SelectSeq(calls, LAMBDA c : c[1] = "job.delete")

\* the listing step of delete_all_tasks takes every job the backend holds at
\* that moment, each once, whatever its campaign or pool
ListsEveryJob ==
    (pc = "idle" /\ pc' = "deleting") =>
        /\ {jid_list'[k] : k \in 1..Len(jid_list')} = {j.id : j \in jobs}
        /\ Len(jid_list') = Cardinality(jobs)
        /\ jobs' = jobs

\* the deletes attempted so far are the listed ids, in the order of the list,
\* and are all of them once delete_all_tasks has returned; no pool is deleted
DeletesFollowList ==
    /\ Len(JobDeletes) = Len(deleted)
    /\ Len(deleted) <= Len(jid_list)
    /\ \A k \in 1..Len(deleted) :
          deleted[k].id = jid_list[k] /\ JobDeletes[k][2] = jid_list[k]
    /\ (pc = "deleted_all" => Len(deleted) = Len(jid_list))
    /\ OpCount("pool.delete") = 0
    /\ Cardinality(pools) = 3

====
